---- MODULE Spec2Model ----
(***************************************************************************)
(* Model of the neighbourhood aggregation and niche clustering pipeline of *)
(* src/src/cell_niches.py.                                                 *)
(*                                                                         *)
(* Units.  Coordinates and radii are integers in units of 0.001, so the    *)
(* radius 0.034 of the pipeline is 34.  A neighbour test compares squared  *)
(* distances, which is exact on these integers (the float rounding of the  *)
(* KDTree at an exact boundary is not modelled).                           *)
(*                                                                         *)
(* A DataFrame is a record [columns, index, values]: the column names, the *)
(* row labels (polygon_uuid, wsi_uuid) and, row by row, the values.        *)
(***************************************************************************)
EXTENDS Integers, Sequences, FiniteSets, TLC

VARIABLES
    nbPoints,   \* Neighbourhood.__call__ argument `points` : sequence of point rows
    nbMarks,    \* Neighbourhood.__call__ argument `marks`  : sequence of mark rows
    nbRadius,   \* Neighbourhood.radius
    nbNeighbours, \* the local `neighbours` of the last call (line 66)
    nbOut,      \* what the call returned (a DataFrame or an error), NotCalled before
    nbPrev,     \* the result of the previous call on the same cells
    nbPrevRadius \* the radius of the previous call

nbVars == <<nbPoints, nbMarks, nbRadius, nbNeighbours, nbOut, nbPrev, nbPrevRadius>>

VARIABLES
    pc,         \* where cell_niches.run() is
    points,     \* /data/tier2/points as get_geometries() returns it
    marks,      \* /data/tier2/marks
    wsi_uuids,  \* the slides the aggregation loop has still to do
    outcome,    \* the list `outcome` of run_neighbourhood_aggregation
    cell_neighbourhoods, \* /data/tier3/cell_neighbourhoods (NotWritten before)
    raised,     \* the exception that ended the run, or NoError
    stage,      \* the module whose run() main.py is at, "exit" after the last
    metadata,   \* /data/tier1/metadata/he_to_mif.csv: rows (parent, ENTITY)
    entities,   \* the entities the loop of run_clustering has still to do
    cell_niche_assignment, \* /data/tier3/cell_niche_assignment: its files
    spot_niche_loading,    \* /data/tier3/spot_niche_loading: its files
    niche_prototypes,      \* /data/tier3/{entity}_niche_prototypes.parquet
    overlay_read           \* what niche_spot_overlay.run() read, NotCalled before

\* the outputs of run_clustering and what is read of them
storeVars == <<cell_niche_assignment, spot_niche_loading, niche_prototypes, overlay_read>>

runVars == <<pc, points, marks, wsi_uuids, outcome, cell_neighbourhoods, raised,
             stage, metadata, entities, storeVars>>

VARIABLES
    hist_in,    \* the argument df of gethist: a matrix of counts and missing entries
    hist_df,    \* the local df / vals of gethist as the function proceeds
    hist_pc     \* the line gethist is at

histVars == <<hist_in, hist_df, hist_pc>>

VARIABLES
    km_df,      \* the argument df of cluster: a DataFrame of neighbourhood counts
    km_pc,      \* where cluster / MiniBatchKMeans.fit is
    km_X,       \* hists, the matrix that is clustered
    km_rng,     \* the state of the random generator seeded with random_state
    km_centers, \* the k centroids
    km_counts,  \* the weight each centroid has absorbed so far
    km_step,    \* the number of mini-batch steps done
    km_ewa,     \* [ewa, ewa_min, no_improvement, since_reassign]: the monitors of fit
    km_out,     \* what cluster returned: [cluster_ids, prototypes] or an error
    km_prev     \* what the previous call of cluster on the same df returned

kmVars == <<km_df, km_pc, km_X, km_rng, km_centers, km_counts, km_step, km_ewa, km_out,
            km_prev>>

vars == <<nbVars, runVars, histVars, kmVars>>

NotNb == <<runVars, histVars, kmVars>>

NotRun == <<nbVars, histVars, kmVars>>

NotHist == <<nbVars, runVars, kmVars>>

NotKm == <<nbVars, runVars, histVars>>

-----------------------------------------------------------------------------
(* Bounds and the input universe                                           *)

MaxCells == 3

\* cells per slide in a run of the whole pipeline
MaxSlideCells == 2

\* radius=0.034 passed by run_neighbourhood_aggregation, in units of 0.001
Radius == 34

Radii == {0, Radius, Radius + 1}

\* (0,0)-(30,16) is at distance exactly 34, (30,16)-(35,0) is inside 34,
\* (0,0)-(35,0) is at distance exactly 35.
Positions == {<<0, 0>>, <<30, 16>>, <<35, 0>>}

MarkColumns == <<"CD3", "CK">>

NumCols == Len(MarkColumns)

MarkValues == {0, 1}

MarkVectors == [1..NumCols -> MarkValues]

Slides == {"A", "B"}

CellIds == 1..MaxCells

\* Every result is a record with a field kind: a DataFrame has kind "frame",
\* a raised exception has the exception's name.
NotCalled == [kind |-> "NotCalled"]

MergeError == [kind |-> "MergeError"]

ValueError == [kind |-> "ValueError"]

Unused == [kind |-> "Unused"]

NotWritten == [kind |-> "NotWritten"]

NoError == [kind |-> "NoError"]

IsFrame(r) == r.kind = "frame"

DataFrame(columns, index, values) ==
    [kind |-> "frame", columns |-> columns, index |-> index, values |-> values]

-----------------------------------------------------------------------------
(* Vector helpers                                                          *)

ZeroVec(n) == [i \in 1..n |-> 0]

VecAdd(a, b) == [i \in 1..Len(a) |-> a[i] + b[i]]

VecLeq(a, b) == \A i \in 1..Len(a) : a[i] <= b[i]

RECURSIVE SumOver(_, _, _)
\* the sum of f[i] over i in S, starting from zero
SumOver(f, S, zero) ==
    IF S = {} THEN zero
    ELSE LET i == CHOOSE j \in S : TRUE
         IN  VecAdd(f[i], SumOver(f, S \ {i}, zero))

Key(row) == <<row.wsi_uuid, row.polygon_uuid>>

KeysUnique(t) == \A i, j \in 1..Len(t) : Key(t[i]) = Key(t[j]) => i = j

-----------------------------------------------------------------------------
(* Neighbourhood.__call__                                                  *)

\* points.merge(marks, on=["wsi_uuid", "polygon_uuid"], validate="one_to_one"):
\* an inner join in the order of the left rows; validate checks that the keys
\* are unique in the left and in the right table, nothing else.
RECURSIVE InnerJoin(_, _)
InnerJoin(pts, mks) ==
    IF pts = <<>> THEN <<>>
    ELSE LET p == Head(pts)
             m == {i \in 1..Len(mks) : Key(mks[i]) = Key(p)}
             rest == InnerJoin(Tail(pts), mks)
         IN  IF m = {} THEN rest
             ELSE <<[wsi_uuid |-> p.wsi_uuid, polygon_uuid |-> p.polygon_uuid,
                     geom |-> p.geom,
                     vals |-> mks[CHOOSE i \in m : TRUE].vals]>> \o rest

Merge(pts, mks) ==
    IF ~KeysUnique(pts) \/ ~KeysUnique(mks) THEN MergeError
    ELSE [kind |-> "joined", rows |-> InnerJoin(pts, mks)]

\* a coordinate that is NaN or infinite: no position of a slide is negative
NonFinite == 0 - 1

IsFinite(xy) == xy[1] # NonFinite /\ xy[2] # NonFinite

Dist2(a, b) == (a[1] - b[1]) * (a[1] - b[1]) + (a[2] - b[2]) * (a[2] - b[2])

\* mutants of the neighbour query: boundary excluded, the point itself
\* excluded, the comparison inverted
QueryBallPointStrict(xy, r) ==
    [i \in 1..Len(xy) |-> {j \in 1..Len(xy) : r >= 0 /\ Dist2(xy[i], xy[j]) < r * r}]

QueryBallPointOthers(xy, r) ==
    [i \in 1..Len(xy) |->
        {j \in 1..Len(xy) : j # i /\ r >= 0 /\ Dist2(xy[i], xy[j]) <= r * r}]

QueryBallPointOutside(xy, r) ==
    [i \in 1..Len(xy) |->
        {j \in 1..Len(xy) : j = i \/ (r >= 0 /\ Dist2(xy[i], xy[j]) >= r * r)}]

\* mutant: only the rows that follow a row are searched
QueryBallPointAhead(xy, r) ==
    [i \in 1..Len(xy) |->
        {j \in 1..Len(xy) : j >= i /\ r >= 0 /\ Dist2(xy[i], xy[j]) <= r * r}]

\* KDTree(xy).query_ball_point(xy, r): for each row the positions within r
QueryBallPoint(xy, r) ==
    [i \in 1..Len(xy) |-> {j \in 1..Len(xy) : r >= 0 /\ Dist2(xy[i], xy[j]) <= r * r}]

\* np.stack([multihot.iloc[n].sum(0) for n in neighbours])
Aggregate(multihot, neighbours) ==
    [i \in 1..Len(multihot) |-> SumOver(multihot, neighbours[i], ZeroVec(NumCols))]

\* the local `neighbours` of __call__ (<<>> when the merge raised)
NeighboursOf(radius, pts, mks) ==
    LET merged == Merge(pts, mks)
    IN  IF merged.kind = "MergeError" THEN <<>>
        ELSE QueryBallPoint([i \in 1..Len(merged.rows) |-> merged.rows[i].geom], radius)

\* mutant: the marks are taken by position from the mark table, not from the join
NeighbourhoodPositional(radius, pts, mks) ==
    LET merged == Merge(pts, mks)
    IN  IF merged.kind = "MergeError" THEN MergeError
        ELSE IF merged.rows = <<>> THEN ValueError
        ELSE LET df == merged.rows
                 multihot == [i \in 1..Len(df) |-> mks[i].vals]
             IN  DataFrame(MarkColumns,
                           [i \in 1..Len(df) |-> <<df[i].polygon_uuid, df[i].wsi_uuid>>],
                           Aggregate(multihot, NeighboursOf(radius, pts, mks)))

\* KDTree(xy) raises ValueError ("data must be finite") on a NaN or infinite
\* coordinate
AllFinite(rows) == \A i \in 1..Len(rows) : IsFinite(rows[i].geom)

\* Neighbourhood.__call__: np.stack of an empty list raises ValueError
Neighbourhood(radius, pts, mks) ==
    LET merged == Merge(pts, mks)
    IN  IF merged.kind = "MergeError" THEN MergeError
        ELSE IF ~AllFinite(merged.rows) THEN ValueError
        ELSE IF merged.rows = <<>> THEN ValueError
        ELSE LET df == merged.rows
                 multihot == [i \in 1..Len(df) |-> df[i].vals]
             IN  DataFrame(MarkColumns,
                           [i \in 1..Len(df) |-> <<df[i].polygon_uuid, df[i].wsi_uuid>>],
                           Aggregate(multihot, NeighboursOf(radius, pts, mks)))

-----------------------------------------------------------------------------
(* Inputs of one call: the cells of one slide, in canonical order, with at *)
(* most one irregular cell (no mark row, two mark rows, two point rows).   *)

Irregularities == {"nomark", "dupmark", "duppoint"}

PointRow(s, c, pos) == [wsi_uuid |-> s, polygon_uuid |-> c, geom |-> pos]

MarkRow(s, c, v) == [wsi_uuid |-> s, polygon_uuid |-> c, vals |-> v]

RECURSIVE Flatten(_)
Flatten(ss) == IF ss = <<>> THEN <<>> ELSE Head(ss) \o Flatten(Tail(ss))

\* the point table of slide s: cell c at pos[c]; an irregular "duppoint" cell twice
PointTable(s, pos, irr) ==
    Flatten([c \in 1..Len(pos) |->
        IF irr = <<c, "duppoint">>
        THEN <<PointRow(s, c, pos[c]), PointRow(s, c, pos[c])>>
        ELSE <<PointRow(s, c, pos[c])>>])

\* the mark table of slide s
MarkTable(s, mv, irr) ==
    Flatten([c \in 1..Len(mv) |->
        IF irr = <<c, "nomark">> THEN <<>>
        ELSE IF irr = <<c, "dupmark">> THEN <<MarkRow(s, c, mv[c]), MarkRow(s, c, mv[c])>>
        ELSE <<MarkRow(s, c, mv[c])>>])

SeqsUpTo(S, n) == UNION {[1..k -> S] : k \in 0..n}

-----------------------------------------------------------------------------------------------------------------------------------------------------
(* SpecNeighbourhood: one call of Neighbourhood(radius)(points, marks)      *)

\* the variables of the pipeline run, in a specification that does not run it
RunIdle ==
    /\ pc = "idle"
    /\ points = <<>>
    /\ marks = <<>>
    /\ wsi_uuids = <<>>
    /\ outcome = <<>>
    /\ cell_neighbourhoods = NotWritten
    /\ raised = NoError
    /\ stage = "idle"
    /\ metadata = <<>>
    /\ entities = <<>>
    /\ cell_niche_assignment = <<>>
    /\ spot_niche_loading = <<>>
    /\ niche_prototypes = <<>>
    /\ overlay_read = Unused

\* the variables of cluster, in a specification that does not call it
KmIdle ==
    /\ km_df = Unused
    /\ km_pc = "idle"
    /\ km_X = <<>>
    /\ km_rng = 0
    /\ km_centers = <<>>
    /\ km_counts = <<>>
    /\ km_step = 0
    /\ km_ewa = <<>>
    /\ km_out = Unused
    /\ km_prev = Unused

\* the variables of gethist, in a specification that does not step through it
HistIdle ==
    /\ hist_in = <<>>
    /\ hist_df = <<>>
    /\ hist_pc = "idle"

\* the variables of the single calls, in a specification that makes none
NbIdle ==
    /\ nbPoints = <<>>
    /\ nbMarks = <<>>
    /\ nbRadius = Radius
    /\ nbNeighbours = <<>>
    /\ nbOut = Unused
    /\ nbPrev = Unused
    /\ nbPrevRadius = Radius

Irregular(n) == {<<0, "none">>} \cup ((1..n) \X Irregularities)

InitNeighbourhood ==
    \E pos \in SeqsUpTo(Positions, MaxCells) :
    \E mv \in [1..Len(pos) -> MarkVectors] :
    \E irr \in Irregular(Len(pos)) :
    \E r \in Radii :
        /\ nbPoints = PointTable("A", pos, irr)
        /\ nbMarks = MarkTable("A", mv, irr)
        /\ nbRadius = r
        /\ nbNeighbours = <<>>
        /\ nbOut = NotCalled
        /\ nbPrev = Unused
        /\ nbPrevRadius = r
        /\ RunIdle
        /\ HistIdle
        /\ KmIdle

Call ==
    /\ nbOut = NotCalled
    /\ nbNeighbours' = NeighboursOf(nbRadius, nbPoints, nbMarks)
    /\ nbOut' = Neighbourhood(nbRadius, nbPoints, nbMarks)
    /\ UNCHANGED <<nbPoints, nbMarks, nbRadius, nbPrev, nbPrevRadius, NotNb>>

NextNeighbourhood == Call

SpecNeighbourhood == InitNeighbourhood /\ [][NextNeighbourhood]_vars

\* --- properties of one call ---

\* the point rows / mark rows of the call that carry the key of output row i
PointsOfKey(k) == {p \in 1..Len(nbPoints) : Key(nbPoints[p]) = k}

MarksOfKey(k) == {m \in 1..Len(nbMarks) : Key(nbMarks[m]) = k}

OutKey(df, i) == <<df.index[i][2], df.index[i][1]>>

\* the mark rows of the points of the same slide within `radius` of the point k
MarksWithin(k, radius) ==
    {m \in 1..Len(nbMarks) :
        \E p \in PointsOfKey(k), q \in PointsOfKey(Key(nbMarks[m])) :
            /\ nbPoints[q].wsi_uuid = nbPoints[p].wsi_uuid
            /\ Dist2(nbPoints[p].geom, nbPoints[q].geom) <= radius * radius}

MarkVals == [m \in 1..Len(nbMarks) |-> nbMarks[m].vals]

\* C1: every NeighbourhoodVector the call returns is the arithmetic sum of the
\* MarkVectors of exactly the points of the slide within distance <= radius
\* (boundary included) of its point, and every point with a mark row gets one.
C1_SumOfMarksWithinRadius ==
    IsFrame(nbOut) =>
        /\ \A i \in 1..Len(nbOut.index) :
              nbOut.values[i] =
                  SumOver(MarkVals, MarksWithin(OutKey(nbOut, i), nbRadius), ZeroVec(NumCols))
        /\ \A p \in 1..Len(nbPoints) :
              MarksOfKey(Key(nbPoints[p])) # {} =>
                  \E i \in 1..Len(nbOut.index) : OutKey(nbOut, i) = Key(nbPoints[p])

\* the scenario of the spec: three mutually adjacent points with marks
\* [1,0], [0,1], [1,0] each get [2,1]
C1_Witness ==
    /\ IsFrame(nbOut)
    /\ Len(nbMarks) = 3
    /\ nbMarks[1].vals = <<1, 0>> /\ nbMarks[2].vals = <<0, 1>> /\ nbMarks[3].vals = <<1, 0>>
    /\ nbPoints[1].geom # nbPoints[2].geom /\ nbPoints[2].geom # nbPoints[3].geom
    /\ nbPoints[1].geom # nbPoints[3].geom
    /\ nbOut.values = <<<<2, 1>>, <<2, 1>>, <<2, 1>>>>

\* C2: for every radius >= 0 every point is in its own neighbour set, so its
\* NeighbourhoodVector is >= its own MarkVector in every component.
C2_SelfIncluded ==
    (IsFrame(nbOut) /\ nbRadius >= 0) =>
        \A i \in 1..Len(nbOut.index) :
            /\ i \in nbNeighbours[i]
            /\ \A m \in MarksOfKey(OutKey(nbOut, i)) :
                  VecLeq(nbMarks[m].vals, nbOut.values[i])

\* radius 0: two points apart, each gets exactly its own non-zero MarkVector
C2_Witness ==
    /\ IsFrame(nbOut) /\ nbRadius = 0
    /\ Len(nbOut.index) = 2
    /\ nbNeighbours = <<{1}, {2}>>
    /\ nbOut.values = <<<<1, 0>>, <<0, 1>>>>

\* C4 as stated: a point with no mark row or with several makes the call
\* fail; it is never dropped from a result that is returned.
C4_JoinFailsLoudly ==
    (nbOut # NotCalled /\ \E p \in 1..Len(nbPoints) :
                              Cardinality(MarksOfKey(Key(nbPoints[p]))) # 1)
        => ~IsFrame(nbOut)

-----------------------------------------------------------------------------
(* SpecOrder: the same cells aggregated again with the point rows permuted  *)

RowOrders(n) == {f \in [1..n -> 1..n] : \A i, j \in 1..n : f[i] = f[j] => i = j}

InitOrder ==
    \E pos \in SeqsUpTo(Positions, MaxCells) :
    \E mv \in [1..Len(pos) -> MarkVectors] :
    \* the cells are alike up to their names: the cell without a mark row,
    \* if any, is cell 1, which the permutations move to every row
    \E irr \in {<<0, "none">>, <<1, "nomark">>} :
        /\ nbPoints = PointTable("A", pos, irr)
        /\ nbMarks = MarkTable("A", mv, irr)
        /\ nbRadius = Radius
        /\ nbNeighbours = <<>>
        /\ nbOut = NotCalled
        /\ nbPrev = Unused
        /\ nbPrevRadius = Radius
        /\ RunIdle
        /\ HistIdle
        /\ KmIdle

\* a second call on a permutation of the point rows of the first call
CallPermuted ==
    /\ nbOut # NotCalled
    /\ nbPrev = Unused
    /\ \E f \in RowOrders(Len(nbPoints)) :
          /\ nbPoints' = [i \in 1..Len(nbPoints) |-> nbPoints[f[i]]]
          /\ nbNeighbours' = NeighboursOf(nbRadius, nbPoints', nbMarks)
          /\ nbOut' = Neighbourhood(nbRadius, nbPoints', nbMarks)
    /\ nbPrev' = nbOut
    /\ UNCHANGED <<nbMarks, nbRadius, nbPrevRadius, NotNb>>

NextOrder == Call \/ CallPermuted

SpecOrder == InitOrder /\ [][NextOrder]_vars

\* a DataFrame as the set of its (row label, row values) pairs
Keyed(df) == {<<df.index[i], df.values[i]>> : i \in 1..Len(df.index)}

\* C5: a call on permuted point rows gives every point, keyed by
\* (slide_id, cell_id), the NeighbourhoodVector of the unpermuted call.
C5_OrderInvariant ==
    nbPrev # Unused =>
        /\ nbPrev.kind = nbOut.kind
        /\ IsFrame(nbPrev) => Keyed(nbPrev) = Keyed(nbOut)

\* the rows were really reordered, and the vectors differ between the rows
C5_Witness ==
    /\ nbPrev # Unused /\ IsFrame(nbPrev) /\ IsFrame(nbOut)
    /\ Len(nbOut.index) = 3
    /\ nbPrev.index # nbOut.index
    /\ nbPrev.values # nbOut.values
    /\ Cardinality({nbOut.values[i] : i \in 1..3}) = 3

-----------------------------------------------------------------------------
(* SpecRadius: the same cells aggregated again with another radius          *)

InitRadius ==
    \E pos \in SeqsUpTo(Positions, MaxCells) :
    \E mv \in [1..Len(pos) -> MarkVectors] :
    \E irr \in {<<0, "none">>} \cup ((1..Len(pos)) \X {"nomark"}) :
    \E r \in Radii :
        /\ nbPoints = PointTable("A", pos, irr)
        /\ nbMarks = MarkTable("A", mv, irr)
        /\ nbRadius = r
        /\ nbNeighbours = <<>>
        /\ nbOut = NotCalled
        /\ nbPrev = Unused
        /\ nbPrevRadius = r
        /\ RunIdle
        /\ HistIdle
        /\ KmIdle

\* a second call on the same points and marks with radius r2
CallWithRadius ==
    /\ nbOut # NotCalled
    /\ nbPrev = Unused
    /\ \E r2 \in Radii :
          /\ nbRadius' = r2
          /\ nbNeighbours' = NeighboursOf(r2, nbPoints, nbMarks)
          /\ nbOut' = Neighbourhood(r2, nbPoints, nbMarks)
    /\ nbPrev' = nbOut
    /\ nbPrevRadius' = nbRadius
    /\ UNCHANGED <<nbPoints, nbMarks, NotNb>>

NextRadius == Call \/ CallWithRadius

SpecRadius == InitRadius /\ [][NextRadius]_vars

\* C6: with the same points and marks and r1 <= r2, every component of every
\* NeighbourhoodVector computed with r2 is >= the one computed with r1.
C6_RadiusMonotonic ==
    (nbPrev # Unused /\ IsFrame(nbPrev) /\ nbPrevRadius <= nbRadius) =>
        /\ IsFrame(nbOut)
        /\ nbOut.index = nbPrev.index
        /\ \A i \in 1..Len(nbOut.index) : VecLeq(nbPrev.values[i], nbOut.values[i])

\* the larger radius reaches a point the smaller one did not
C6_Witness ==
    /\ nbPrev # Unused /\ IsFrame(nbPrev) /\ IsFrame(nbOut)
    /\ nbPrevRadius < nbRadius
    /\ \E i \in 1..Len(nbOut.index) :
          /\ nbPrev.values[i] # nbOut.values[i]
          /\ VecLeq(nbPrev.values[i], nbOut.values[i])

-----------------------------------------------------------------------------
(* Spec: cell_niches.run()                                                 *)

RunPositions == {<<0, 0>>, <<30, 16>>}

RunMarkVectors == {<<1, 0>>, <<0, 1>>}

\* mutant: only a repetition of the row before is dropped
DropRepeated(q) ==
    LET Kept(i) == i = 1 \/ q[i] # q[i - 1]
        kept == SelectSeq([i \in 1..Len(q) |-> i], Kept)
    IN  [k \in 1..Len(kept) |-> q[kept[k]]]

RECURSIVE DropDuplicates(_)
\* Series.drop_duplicates(): the first occurrence of each value, in order
DropDuplicates(q) ==
    IF q = <<>> THEN <<>>
    ELSE LET front == DropDuplicates(SubSeq(q, 1, Len(q) - 1))
             last == q[Len(q)]
         IN  IF \E i \in 1..Len(front) : front[i] = last THEN front
             ELSE Append(front, last)

\* mutant: the slide filter keeps every row
QueryAll(table, wsi_uuid) == table

\* table.query("wsi_uuid==@wsi_uuid")
QuerySlide(table, wsi_uuid) ==
    LET Same(row) == row.wsi_uuid = wsi_uuid
    IN  SelectSeq(table, Same)

RECURSIVE Concat(_)
\* pd.concat of a list of DataFrames with the same columns
Concat(frames) ==
    IF Len(frames) = 1 THEN frames[1]
    ELSE LET rest == Concat(Tail(frames))
         IN  DataFrame(frames[1].columns,
                       frames[1].index \o rest.index,
                       frames[1].values \o rest.values)

\* run_neighbourhood_aggregation, lines 85-89
StartAggregation ==
    /\ stage = "cell_niches"
    /\ pc = "run"
    /\ wsi_uuids' = DropDuplicates([i \in 1..Len(points) |-> points[i].wsi_uuid])
    /\ outcome' = <<>>
    /\ pc' = "aggregate"
    /\ UNCHANGED <<points, marks, cell_neighbourhoods, raised, NotRun>>
    /\ UNCHANGED <<stage, metadata, entities, storeVars>>

\* one iteration of the loop of lines 91-95
AggregateSlide ==
    /\ pc = "aggregate"
    /\ wsi_uuids # <<>>
    /\ LET wsi_uuid == Head(wsi_uuids)
           res == Neighbourhood(Radius, QuerySlide(points, wsi_uuid),
                                QuerySlide(marks, wsi_uuid))
       IN  IF IsFrame(res)
           THEN /\ outcome' = Append(outcome, res)
                /\ wsi_uuids' = Tail(wsi_uuids)
                /\ UNCHANGED <<pc, raised>>
           ELSE /\ raised' = res
                /\ pc' = "failed"
                /\ UNCHANGED <<outcome, wsi_uuids>>
    /\ UNCHANGED <<points, marks, cell_neighbourhoods, NotRun>>
    /\ UNCHANGED <<stage, metadata, entities, storeVars>>

\* mutant: the loop is left while slides remain
ExhaustedEarly(remaining) == TRUE

\* for wsi_uuid in wsi_uuids: the loop is left when no slide remains
Exhausted(remaining) == remaining = <<>>

\* lines 97-98: pd.concat (ValueError on an empty list) and to_parquet
PersistNeighbourhoods ==
    /\ pc = "aggregate"
    /\ Exhausted(wsi_uuids)
    /\ IF outcome = <<>>
       THEN /\ raised' = ValueError
            /\ pc' = "failed"
            /\ UNCHANGED cell_neighbourhoods
       ELSE /\ cell_neighbourhoods' = Concat(outcome)
            /\ pc' = "aggregated"
            /\ UNCHANGED raised
    /\ UNCHANGED <<points, marks, wsi_uuids, outcome, NotRun>>
    /\ UNCHANGED <<stage, metadata, entities, storeVars>>

\* the point row / the mark rows of the run's input with a row label
RunPoint(label) ==
    CHOOSE p \in 1..Len(points) :
        points[p].polygon_uuid = label[1] /\ points[p].wsi_uuid = label[2]

\* the mark rows of the cells of the slide of `label` within Radius of it
SlideMarksWithin(label) ==
    {m \in 1..Len(marks) :
        /\ marks[m].wsi_uuid = label[2]
        /\ \E q \in 1..Len(points) :
              /\ Key(points[q]) = Key(marks[m])
              /\ Dist2(points[q].geom, points[RunPoint(label)].geom) <= Radius * Radius}

RunMarkVals == [m \in 1..Len(marks) |-> marks[m].vals]

NoLeak(df) ==
    \A i \in 1..Len(df.index) :
        df.values[i] = SumOver(RunMarkVals, SlideMarksWithin(df.index[i]), ZeroVec(NumCols))

\* C3: in run_neighbourhood_aggregation no NeighbourhoodVector, collected or
\* persisted, holds the MarkVector of a point of another slide: each is the
\* sum over the cells of its own slide only.
C3_NoCrossSlideLeak ==
    /\ \A k \in 1..Len(outcome) : NoLeak(outcome[k])
    /\ IsFrame(cell_neighbourhoods) => NoLeak(cell_neighbourhoods)

\* two slides with a cell at the same coordinates and different marks: each
\* persisted vector is the cell's own
C3_Witness ==
    /\ IsFrame(cell_neighbourhoods)
    /\ Len(points) = 2
    /\ points[1].wsi_uuid = "A" /\ points[2].wsi_uuid = "B"
    /\ points[1].geom = points[2].geom
    /\ points[1].polygon_uuid = points[2].polygon_uuid
    /\ cell_neighbourhoods.index = <<<<1, "A">>, <<1, "B">>>>
    /\ cell_neighbourhoods.values = <<<<1, 0>>, <<0, 1>>>>

-----------------------------------------------------------------------------
(* gethist                                                                 *)
(*                                                                         *)
(* A matrix entry is Num(v) or NaN.  After log1p the numbers are in units  *)
(* of 1e-6 (log1p of a count, truncated to six decimals), so the epsilon   *)
(* 1e-6 of line 114 is 1.  A quotient is kept exactly, as Ratio(n, d).     *)

MaxCount == 3

MaxHistRows == 2

\* 1e-6 of line 114, in units of 1e-6
Eps == 1

Micro == 1000 * 1000

NaN == [k |-> "nan"]

Inf == [k |-> "inf"]

Num(v) == [k |-> "num", v |-> v]

Ratio(n, d) == [k |-> "ratio", n |-> n, d |-> d]

\* log1p(c) = ln(1 + c) for the counts c = 0..10, in units of 1e-6
Log1pTable ==
    <<0, 693147, 1098612, 1386294, 1609437, 1791759,
      1945910, 2079441, 2197224, 2302585, 2397895>>

MapMatrix(Op(_), m) == [i \in 1..Len(m) |-> [j \in 1..Len(m[i]) |-> Op(m[i][j])]]

FillnaSkipped(df) == df

\* df.fillna(0)
Fillna(df) ==
    LET F(x) == IF x = NaN THEN Num(0) ELSE x
    IN  MapMatrix(F, df)

\* np.log1p(df): NaN stays NaN
Log1p(df) ==
    LET F(x) == IF x = NaN THEN NaN ELSE Num(Log1pTable[x.v + 1])
    IN  MapMatrix(F, df)

RECURSIVE SumNums(_)
\* ndarray.sum of a sequence of entries: NaN if any entry is NaN
SumNums(q) ==
    IF q = <<>> THEN Num(0)
    ELSE LET rest == SumNums(Tail(q))
         IN  IF Head(q) = NaN \/ rest = NaN THEN NaN ELSE Num(Head(q).v + rest.v)

\* numpy true division: x/0 is inf, 0/0 and anything with NaN is NaN
Divide(a, b) ==
    IF a = NaN \/ b = NaN THEN NaN
    ELSE IF b.v = 0 THEN (IF a.v = 0 THEN NaN ELSE Inf)
    ELSE Ratio(a.v, b.v)

AddEps(x) == IF x = NaN THEN NaN ELSE Num(x.v + Eps)

\* mutant: the sum is taken over the whole matrix, not row by row
NormalizeGlobal(vals) ==
    LET total == SumNums(Flatten(vals))
        F(x) == Divide(x, AddEps(total))
    IN  MapMatrix(F, vals)

\* vals / (vals.sum(-1, keepdims=True) + 1e-6)
Normalize(vals) ==
    [i \in 1..Len(vals) |->
        [j \in 1..Len(vals[i]) |-> Divide(vals[i][j], AddEps(SumNums(vals[i])))]]

gethist(df) == Normalize(Log1p(Fillna(df)))

Entries == {Num(c) : c \in 0..MaxCount} \cup {NaN}

InitHist ==
    \E n \in 1..MaxHistRows :
    \E m \in [1..n -> [1..NumCols -> Entries]] :
        /\ hist_in = m
        /\ hist_df = m
        /\ hist_pc = "fillna"
        /\ NbIdle
        /\ RunIdle
        /\ KmIdle

\* line 111
HistFillna ==
    /\ hist_pc = "fillna"
    /\ hist_df' = Fillna(hist_df)
    /\ hist_pc' = "log1p"
    /\ UNCHANGED <<hist_in, NotHist>>

\* line 112
HistLog1p ==
    /\ hist_pc = "log1p"
    /\ hist_df' = Log1p(hist_df)
    /\ hist_pc' = "normalize"
    /\ UNCHANGED <<hist_in, NotHist>>

\* lines 113-115
HistNormalize ==
    /\ hist_pc = "normalize"
    /\ hist_df' = Normalize(hist_df)
    /\ hist_pc' = "done"
    /\ UNCHANGED <<hist_in, NotHist>>

NextHist == HistFillna \/ HistLog1p \/ HistNormalize

SpecHist == InitHist /\ [][NextHist]_vars

ZeroOrMissing(x) == x = NaN \/ x = Num(0)

RowIsEmpty(row) == \A j \in 1..Len(row) : ZeroOrMissing(row[j])

\* C7: gethist maps a row whose entries are all zero or missing to an
\* all-zero row: every entry is the number 0, none is NaN or infinite.
C7_ZeroRowsStayZero ==
    hist_pc = "done" =>
        \A i \in 1..Len(hist_in) :
            RowIsEmpty(hist_in[i]) =>
                \A j \in 1..NumCols :
                    /\ hist_df[i][j].k = "ratio"
                    /\ hist_df[i][j].n = 0
                    /\ hist_df[i][j].d > 0

\* a row of a missing entry and a zero, beside a row with counts
C7_Witness ==
    /\ hist_pc = "done"
    /\ hist_in = <<<<NaN, Num(0)>>, <<Num(2), Num(1)>>>>
    /\ hist_df[1] = <<Ratio(0, Eps), Ratio(0, Eps)>>

RECURSIVE SumNumerators(_)
SumNumerators(row) ==
    IF row = <<>> THEN 0 ELSE Head(row).n + SumNumerators(Tail(row))

\* C8: every value of the output is in [0,1]; every row sum is in [0,1]
\* (so in [0, 1+delta]); and the row sum of a row with a non-zero input
\* entry is within 2e-6 of 1.  All entries of a row have the row's
\* denominator, so the row sum is SumNumerators / d.
C8_HistogramRange ==
    hist_pc = "done" =>
        \A i \in 1..Len(hist_df) :
            LET row == hist_df[i]
                d == row[1].d
            IN  /\ \A j \in 1..NumCols :
                      /\ row[j].k = "ratio" /\ row[j].d = d /\ d > 0
                      /\ 0 <= row[j].n /\ row[j].n <= d
                /\ 0 <= SumNumerators(row) /\ SumNumerators(row) <= d
                /\ ~RowIsEmpty(hist_in[i]) =>
                      d - SumNumerators(row) <= (2 * Eps * d) \div Micro

\* two rows with counts, one dominated by a single column
C8_Witness ==
    /\ hist_pc = "done"
    /\ hist_in = <<<<Num(3), Num(0)>>, <<Num(1), Num(2)>>>>
    /\ hist_df[1] = <<Ratio(1386294, 1386295), Ratio(0, 1386295)>>
    /\ hist_df[2] = <<Ratio(693147, 1791760), Ratio(1098612, 1791760)>>

-----------------------------------------------------------------------------
(* cluster: gethist, MiniBatchKMeans(...).fit_predict, the prototypes       *)
(*                                                                         *)
(* The histograms are clustered in fixed point, in units of 1/HistScale.   *)
(* The random generator seeded with random_state is a linear congruential *)
(* generator: what matters to the claims is that its draws are a function  *)
(* of the seed.  k-means++ draws one candidate per centre.                 *)

\* n_clusters=10, random_state=0, batch_size=8000, max_no_improvement=200
NClusters == 10

RandomState == 0

BatchSize == 8000

MaxNoImprovement == 200

\* max_iter, which the call leaves at the default of MiniBatchKMeans
MaxIter == 100

HistScale == 10 * 10

\* rows of the input beyond n_clusters
MaxExtraRows == 1

NextRng(r) == (r * 75 + 74) % 65537

Min(a, b) == IF a <= b THEN a ELSE b

RECURSIVE SumInts(_)
SumInts(q) == IF q = <<>> THEN 0 ELSE Head(q) + SumInts(Tail(q))

RECURSIVE Randint(_, _, _)
\* random_state.randint(0, n, size), as row positions 1..n
Randint(r, n, size) ==
    IF size = 0 THEN [rng |-> r, out |-> <<>>]
    ELSE LET r1 == NextRng(r)
             rest == Randint(r1, n, size - 1)
         IN  [rng |-> rest.rng, out |-> <<(r1 % n) + 1>> \o rest.out]

\* a histogram value in units of 1/HistScale
Quantise(x) == (x.n * HistScale) \div x.d

\* hists = gethist(df), as the float matrix handed to fit_predict
Hists(df) == MapMatrix(Quantise, gethist(df.values))

RECURSIVE SqDistFrom(_, _, _)
SqDistFrom(x, c, j) ==
    IF j > Len(x) THEN 0
    ELSE (x[j] - c[j]) * (x[j] - c[j]) + SqDistFrom(x, c, j + 1)

SqDist(x, c) == SqDistFrom(x, c, 1)

\* Operator arguments are evaluated once, so every intermediate value of the
\* computations below is handed on as an argument.

\* the squared distances of x to the centroids
Distances(x, centers) == [c \in 1..Len(centers) |-> SqDist(x, centers[c])]

\* the first position of the least of d[1..k]
ArgMin(d, k) ==
    CHOOSE c \in 1..k : \A e \in 1..k : d[c] < d[e] \/ (d[c] = d[e] /\ c <= e)

\* mutant: the last centroid is never looked at
NearestButLast(x, centers) ==
    ArgMin(Distances(x, centers), IF Len(centers) > 1 THEN Len(centers) - 1 ELSE 1)

\* argmin over the centroids of the Euclidean distance: the first of the nearest
Nearest(x, centers) == ArgMin(Distances(x, centers), Len(centers))

\* _labels_inertia: cluster ids are 0-based
LabelsOf(X, centers) == [i \in 1..Len(X) |-> Nearest(X[i], centers) - 1]

InertiaOf(X, centers, labels) ==
    SumInts([i \in 1..Len(X) |-> SqDist(X[i], centers[labels[i] + 1])])

\* searchsorted(cumsum(w), v): the first position whose cumulative sum is >= v
SearchSorted(w, v) ==
    LET Cum(i) == SumInts(SubSeq(w, 1, i))
        hits == {i \in 1..Len(w) : Cum(i) >= v}
    IN  IF hits = {} THEN Len(w) ELSE CHOOSE i \in hits : \A h \in hits : i <= h

\* the row k-means++ draws: `closest` are the squared distances of the rows to
\* their nearest centre so far, `pot` their sum
PlusPlusPick(closest, pot, r1) == SearchSorted(closest, ((r1 % 1024) * pot) \div 1024)

ClosestOf(X, centers) ==
    [i \in 1..Len(X) |-> SqDist(X[i], centers[Nearest(X[i], centers)])]

PlusPlusDraw(X, centers, closest, r1) ==
    X[PlusPlusPick(closest, SumInts(closest), r1)]

RECURSIVE KMeansPlusPlus(_, _, _)
\* init="k-means++": the first centre is a uniformly drawn row, each further
\* centre a row drawn with probability proportional to its squared distance
\* to the nearest centre chosen so far
KMeansPlusPlus(X, centers, r) ==
    IF Len(centers) = NClusters THEN [rng |-> r, centers |-> centers]
    ELSE IF centers = <<>>
    THEN KMeansPlusPlus(X, <<X[(NextRng(r) % Len(X)) + 1]>>, NextRng(r))
    ELSE KMeansPlusPlus(X,
             Append(centers, PlusPlusDraw(X, centers, ClosestOf(X, centers), NextRng(r))),
             NextRng(r))

\* the rows of the batch with label c - 1
MembersOf(labels, c) == {i \in 1..Len(labels) : labels[i] = c - 1}

\* _minibatch_update_dense: the running weighted average of a centroid over
\* the rows `mine` of the batch B that carry its label
UpdatedCenter(center, count, B, mine) ==
    IF mine = {} THEN center
    ELSE [j \in 1..Len(center) |->
            (center[j] * count
               + SumInts([i \in 1..Len(B) |-> IF i \in mine THEN B[i][j] ELSE 0]))
                \div (count + Cardinality(mine))]

MaxOf(q) == CHOOSE v \in {q[i] : i \in 1..Len(q)} : \A i \in 1..Len(q) : q[i] <= v

MinOfSet(S) == CHOOSE v \in S : \A w \in S : v <= w

\* weight_sums < reassignment_ratio * weight_sums.max() with the ratio 0.01,
\* cut to the half a batch of lightest centroids (the first on ties)
ToReassign(counts1, top, b) ==
    LET k == Len(counts1)
        low == {c \in 1..k : counts1[c] * 100 < top}
        Lighter(c, d) == counts1[c] < counts1[d] \/ (counts1[c] = counts1[d] /\ c < d)
    IN  IF 2 * Cardinality(low) > b
        THEN {c \in low : Cardinality({d \in 1..k : Lighter(d, c)}) < b \div 2}
        ELSE low

\* the reassigned centroids become distinct batch rows
\* (random_state.choice(batch, replace=False)) and get the least weight of the others
Reassigned(B, updated, counts1, to_reassign, r1, floor, inertia) ==
    [rng |-> r1,
     centers |-> [c \in 1..Len(updated) |->
                     IF c \in to_reassign
                     THEN B[((r1 + Cardinality({d \in to_reassign : d < c})) % Len(B)) + 1]
                     ELSE updated[c]],
     counts |-> [c \in 1..Len(updated) |->
                    IF c \in to_reassign THEN floor ELSE counts1[c]],
     inertia |-> inertia]

Reassign(B, updated, counts1, to_reassign, r, inertia) ==
    IF to_reassign = {}
    THEN [rng |-> r, centers |-> updated, counts |-> counts1, inertia |-> inertia]
    ELSE Reassigned(B, updated, counts1, to_reassign, NextRng(r),
                    MinOfSet({counts1[d] : d \in (1..Len(updated)) \ to_reassign}),
                    inertia)

StepUpdated(B, centers, counts, r, random_reassign, labels, counts1) ==
    Reassign(B,
             [c \in 1..Len(centers) |->
                 UpdatedCenter(centers[c], counts[c], B, MembersOf(labels, c))],
             counts1,
             IF random_reassign THEN ToReassign(counts1, MaxOf(counts1), Len(B)) ELSE {},
             r,
             InertiaOf(B, centers, labels))

StepLabelled(B, centers, counts, r, random_reassign, labels) ==
    StepUpdated(B, centers, counts, r, random_reassign, labels,
                [c \in 1..Len(centers) |-> counts[c] + Cardinality(MembersOf(labels, c))])

\* _mini_batch_step on the batch B: labels and inertia against the current
\* centroids, the update, and the reassignment of centroids of very low weight
MiniBatchStepOf(B, centers, counts, r, random_reassign) ==
    StepLabelled(B, centers, counts, r, random_reassign, LabelsOf(B, centers))

\* _mini_batch_convergence, tol = 0: the monitors after step number `step`
\* (counted from 1); ewa < 0 stands for None.  Inertia per row is in 1/1000.
MonitorsWith(mon, ewa) ==
    IF mon.ewa_min < 0 \/ ewa < mon.ewa_min
    THEN [mon EXCEPT !.ewa = ewa, !.ewa_min = ewa, !.no_improvement = 0]
    ELSE [mon EXCEPT !.ewa = ewa, !.no_improvement = mon.no_improvement + 1]

Ewa(mon, n, norm, alpha2) ==
    IF mon.ewa < 0 THEN norm
    ELSE (mon.ewa * (n + 1 - alpha2) + norm * alpha2) \div (n + 1)

Monitors(mon, step, n, b, batch_inertia) ==
    IF step = 1 THEN mon
    ELSE MonitorsWith(mon, Ewa(mon, n, (batch_inertia * 1000) \div b, Min(2 * b, n + 1)))

\* mutant: the prototypes are built without columns=df.columns
PrototypesUnnamed(df, centers) ==
    DataFrame([j \in 1..Len(centers[1]) |-> ToString(j - 1)],
              [c \in 1..Len(centers) |-> c - 1], centers)

\* pd.DataFrame(kms.cluster_centers_, columns=df.columns)
Prototypes(df, centers) ==
    DataFrame(df.columns, [c \in 1..Len(centers) |-> c - 1], centers)

\* pd.Series(kms.fit_predict(hists), index=df.index)
ClusterIds(df, labels) == [index |-> df.index, values |-> labels]

\* the neighbourhood rows the inputs are made of
BaseRows ==
    <<<<Num(0), Num(0)>>, <<Num(1), Num(0)>>, <<Num(0), Num(1)>>, <<Num(1), Num(1)>>,
      <<Num(2), Num(1)>>, <<Num(1), Num(2)>>, <<Num(3), Num(1)>>, <<Num(1), Num(3)>>,
      <<Num(3), Num(2)>>, <<Num(2), Num(3)>>, <<NaN, Num(2)>>, <<Num(3), NaN>>,
      <<Num(2), Num(0)>>>>

Strides == {1, 5}

\* n rows of BaseRows, from row a on in steps of s, for the cells 1..n of slide "A"
InputFrame(n, a, s) ==
    DataFrame(MarkColumns,
              [i \in 1..n |-> <<i, "A">>],
              [i \in 1..n |-> BaseRows[((a + s * i) % Len(BaseRows)) + 1]])

InitCluster ==
    \E n \in (NClusters - 1)..(NClusters + MaxExtraRows) :
    \E a \in 0..(Len(BaseRows) - 1) :
    \E s \in Strides :
        /\ km_df = InputFrame(n, a, s)
        /\ km_pc = "start"
        /\ km_X = <<>>
        /\ km_rng = RandomState
        /\ km_centers = <<>>
        /\ km_counts = <<>>
        /\ km_step = 0
        /\ km_ewa = <<>>
        /\ km_out = NotCalled
        /\ km_prev = NotCalled
        /\ NbIdle
        /\ RunIdle
        /\ HistIdle

\* mutant: random_state=None, the fit goes on with the generator of the process
CheckRandomStateGlobal(generator) == generator

\* check_random_state(random_state) with random_state=0: a generator freshly
\* seeded with 0, whatever state the generator of the process is in
CheckRandomState(generator) == RandomState

Initialised(init) ==
    /\ km_rng' = init.rng
    /\ km_centers' = init.centers

\* lines 144-153 and the start of fit: the histograms, the check of
\* n_samples >= n_clusters, the initial centroids
ClusterStart ==
    /\ km_pc = "start"
    /\ LET X == Hists(km_df)
       IN  IF Len(X) < NClusters
           THEN /\ km_pc' = "failed"
                /\ km_out' = ValueError
                /\ UNCHANGED <<km_X, km_rng, km_centers, km_counts, km_ewa>>
           ELSE /\ km_X' = X
                /\ Initialised(KMeansPlusPlus(X, <<>>, CheckRandomState(km_rng)))
                /\ km_counts' = [c \in 1..NClusters |-> 0]
                /\ km_ewa' = [ewa |-> -1, ewa_min |-> -1,
                              no_improvement |-> 0, since_reassign |-> 0]
                /\ km_pc' = "fit"
                /\ UNCHANGED km_out
    /\ UNCHANGED <<km_df, km_step, km_prev, NotKm>>

NSteps(n) == (MaxIter * n) \div Min(BatchSize, n)

Converged == km_ewa.no_improvement >= MaxNoImprovement

\* _random_reassign: a centroid without weight, or 10 * n_clusters rows seen
RandomReassign(counts, since) ==
    (\E c \in 1..Len(counts) : counts[c] = 0) \/ since >= 10 * NClusters

StepOfFit(X, draw, centers, counts, random_reassign) ==
    MiniBatchStepOf([i \in 1..Len(draw.out) |-> X[draw.out[i]]],
                    centers, counts, draw.rng, random_reassign)

StepApplied(step, mon) ==
    /\ km_rng' = step.rng
    /\ km_centers' = step.centers
    /\ km_counts' = step.counts
    /\ km_ewa' = Monitors(mon, km_step + 1, Len(km_X), Min(BatchSize, Len(km_X)),
                          step.inertia)

StepDrawn(draw, since, random_reassign) ==
    StepApplied(StepOfFit(km_X, draw, km_centers, km_counts, random_reassign),
                [km_ewa EXCEPT !.since_reassign = IF random_reassign THEN 0 ELSE since])

\* one iteration of the loop of fit
MiniBatchStep ==
    /\ km_pc = "fit"
    /\ km_step < NSteps(Len(km_X))
    /\ ~Converged
    /\ StepDrawn(Randint(km_rng, Len(km_X), Min(BatchSize, Len(km_X))),
                 km_ewa.since_reassign + Min(BatchSize, Len(km_X)),
                 RandomReassign(km_counts,
                                km_ewa.since_reassign + Min(BatchSize, Len(km_X))))
    /\ km_step' = km_step + 1
    /\ UNCHANGED <<km_df, km_pc, km_X, km_out, km_prev, NotKm>>

\* the end of fit (labels_ of every row) and lines 155-158
ClusterReturn ==
    /\ km_pc = "fit"
    /\ km_step >= NSteps(Len(km_X)) \/ Converged
    /\ km_out' = [kind |-> "returned",
                  cluster_ids |-> ClusterIds(km_df, LabelsOf(km_X, km_centers)),
                  prototypes |-> Prototypes(km_df, km_centers)]
    /\ km_pc' = "done"
    /\ UNCHANGED <<km_df, km_X, km_rng, km_centers, km_counts, km_step, km_ewa, km_prev,
                   NotKm>>

NextCluster == ClusterStart \/ MiniBatchStep \/ ClusterReturn

SpecCluster == InitCluster /\ [][NextCluster]_vars

-----------------------------------------------------------------------------
(* SpecRepeat: cluster called a second time on the same df                  *)

InitRepeat ==
    \E n \in NClusters..(NClusters + MaxExtraRows) :
    \E a \in 0..(Len(BaseRows) - 1) :
        /\ km_df = InputFrame(n, a, 1)
        /\ km_pc = "start"
        /\ km_X = <<>>
        /\ km_rng = RandomState
        /\ km_centers = <<>>
        /\ km_counts = <<>>
        /\ km_step = 0
        /\ km_ewa = <<>>
        /\ km_out = NotCalled
        /\ km_prev = NotCalled
        /\ NbIdle
        /\ RunIdle
        /\ HistIdle

\* the second call: same df, the generator of the process where the first
\* call left it
ClusterAgain ==
    /\ km_pc = "done"
    /\ km_prev = NotCalled
    /\ km_prev' = km_out
    /\ km_out' = NotCalled
    /\ km_pc' = "start"
    /\ km_step' = 0
    /\ UNCHANGED <<km_df, km_X, km_rng, km_centers, km_counts, km_ewa, NotKm>>

NextRepeat == ClusterStart \/ MiniBatchStep \/ ClusterReturn \/ ClusterAgain

SpecRepeat == InitRepeat /\ [][NextRepeat]_vars

\* C11: a second run of cluster on the same rows in the same order, with the
\* seed 0 and the batch size of the code, returns the same NicheAssignment and
\* the same NichePrototype as the first.
C11_Deterministic ==
    (km_pc = "done" /\ km_prev # NotCalled) =>
        /\ km_out.cluster_ids = km_prev.cluster_ids
        /\ km_out.prototypes = km_prev.prototypes

\* the second run has returned, after the draws of the first moved the
\* generator of the process, with rows in several niches
C11_Witness ==
    /\ km_pc = "done"
    /\ km_prev # NotCalled
    /\ km_rng # RandomState
    /\ km_step = MaxIter
    /\ km_out = km_prev
    /\ Cardinality({km_out.cluster_ids.values[i] : i \in 1..Len(km_df.index)}) > 3

\* C9: cluster returns exactly k = n_clusters = 10 prototype rows, and the
\* prototype table has the columns of the input table, in the same order.
C9_PrototypeShape ==
    km_pc = "done" =>
        /\ km_out.kind = "returned"
        /\ NClusters = 10
        /\ Len(km_out.prototypes.values) = NClusters
        /\ km_out.prototypes.index = [c \in 1..NClusters |-> c - 1]
        /\ km_out.prototypes.columns = km_df.columns
        /\ \A c \in 1..NClusters :
              Len(km_out.prototypes.values[c]) = Len(km_df.columns)

\* a fit of eleven rows has returned its ten prototypes, not all alike
C9_Witness ==
    /\ km_pc = "done"
    /\ Len(km_df.index) = NClusters + 1
    /\ km_step = MaxIter
    /\ Len(km_out.prototypes.values) = 10
    /\ km_out.prototypes.columns = <<"CD3", "CK">>
    /\ Cardinality({km_out.prototypes.values[c] : c \in 1..NClusters}) > 5

\* C10: after the fit every input row has a niche id in 0..k-1, the index of
\* a final centroid that no other final centroid is nearer to the row's
\* histogram than, and the ids carry the index of the input, in its order.
C10_NearestFinalCentroid ==
    km_pc = "done" =>
        LET ids == km_out.cluster_ids
            final == km_out.prototypes.values
            X == Hists(km_df)
        IN  /\ ids.index = km_df.index
            /\ Len(ids.values) = Len(km_df.index)
            /\ final = km_centers
            /\ \A i \in 1..Len(ids.values) :
                  /\ ids.values[i] \in 0..(NClusters - 1)
                  /\ \A c \in 1..NClusters :
                        SqDist(X[i], final[ids.values[i] + 1]) <= SqDist(X[i], final[c])

\* rows in several niches, the last niche among them, and a row that is not
\* on its centroid
C10_Witness ==
    /\ km_pc = "done"
    /\ Cardinality({km_out.cluster_ids.values[i] : i \in 1..Len(km_df.index)}) > 3
    /\ \E i \in 1..Len(km_df.index) : km_out.cluster_ids.values[i] = NClusters - 1
    /\ \E i \in 1..Len(km_df.index) :
          km_X[i] # km_centers[km_out.cluster_ids.values[i] + 1]

-----------------------------------------------------------------------------
(* Spec: main.py, cell_niches.run() with run_clustering                     *)

\* main.py, lines 38-41
Stages == <<"phenotype_density", "cell_niches", "niche_spot_overlay", "clustermaps">>

StageIndex(s) == CHOOSE k \in 1..Len(Stages) : Stages[k] = s

\* mutant: the overlay is run before cell_niches
StageAfterOverlayEarly(s) ==
    CASE s = "phenotype_density" -> "niche_spot_overlay"
      [] s = "niche_spot_overlay" -> "cell_niches"
      [] s = "cell_niches" -> "clustermaps"
      [] OTHER -> "exit"

\* the module main.py runs after the module s
StageAfter(s) == IF StageIndex(s) = Len(Stages) THEN "exit" ELSE Stages[StageIndex(s) + 1]

\* for entity in ["LUAD", "LUSC"]
Entities == <<"LUAD", "LUSC">>

MetaRow(s, e) == [parent |-> s, ENTITY |-> e]

RECURSIVE FirstEntity(_, _)
\* select parent, first(ENTITY) as entity ... group by parent: the entity of
\* the first metadata row of the slide, "" when the slide has none
FirstEntity(meta, s) ==
    IF meta = <<>> THEN ""
    ELSE IF Head(meta).parent = s THEN Head(meta).ENTITY
    ELSE FirstEntity(Tail(meta), s)

\* mutant: the pooled table is joined with the metadata rows themselves
InCohortByAnyRow(meta, s, entity) ==
    \E k \in 1..Len(meta) : meta[k].parent = s /\ meta[k].ENTITY = entity

\* join wsi_uuid_to_entity w2e on cn.wsi_uuid = w2e.parent where entity=$entity
InCohort(meta, s, entity) == FirstEntity(meta, s) = entity

\* the query of lines 170-181: the rows of the pooled table whose slide joins
\* a metadata row of the entity, indexed by (polygon_uuid, wsi_uuid)
Neighbourhoods(table, meta, entity) ==
    LET Joined(i) == InCohort(meta, table.index[i][2], entity)
        rows == SelectSeq([i \in 1..Len(table.index) |-> i], Joined)
    IN  DataFrame(table.columns,
                  [k \in 1..Len(rows) |-> table.index[rows[k]]],
                  [k \in 1..Len(rows) |->
                      [j \in 1..Len(table.columns) |-> Num(table.values[rows[k]][j])]])

\* cluster_ids.to_frame("niche_id").reset_index()
AssignmentRows(ids) ==
    [i \in 1..Len(ids.index) |->
        [wsi_uuid |-> ids.index[i][2], polygon_uuid |-> ids.index[i][1],
         niche_id |-> ids.values[i]]]

RECURSIVE SortedSeq(_)
\* the elements of a set of integers in ascending order
SortedSeq(S) ==
    IF S = {} THEN <<>>
    ELSE LET least == CHOOSE v \in S : \A w \in S : v <= w
         IN  <<least>> \o SortedSeq(S \ {least})

\* mutant: the counts of the whole cohort, without the groupby
ValueCountsCohort(ids, s, c) ==
    Cardinality({i \in 1..Len(ids.index) : ids.values[i] = c})

\* groupby("wsi_uuid").niche_id.value_counts(): the cells of slide s in niche c
ValueCounts(ids, s, c) ==
    Cardinality({i \in 1..Len(ids.index) : ids.index[i][2] = s /\ ids.values[i] = c})

\* .unstack().fillna(0): one row per slide of the cohort, one column per niche
\* id that occurs in the cohort, 0 where the slide has no cell of the niche
SpotNicheLoading(ids) ==
    LET slides == DropDuplicates([i \in 1..Len(ids.index) |-> ids.index[i][2]])
        columns == SortedSeq({ids.values[i] : i \in 1..Len(ids.index)})
    IN  [k \in 1..Len(slides) |->
            [wsi_uuid |-> slides[k], columns |-> columns,
             values |-> [c \in 1..Len(columns) |-> ValueCounts(ids, slides[k], columns[c])]]]

\* mutant: the path is written as one file, replacing what was there
WriteOverwriting(dataset, rows) ==
    LET slides == DropDuplicates([i \in 1..Len(rows) |-> rows[i].wsi_uuid])
    IN  [k \in 1..Len(slides) |->
            LET Same(row) == row.wsi_uuid = slides[k]
            IN  [wsi_uuid |-> slides[k], rows |-> SelectSeq(rows, Same)]]

\* to_parquet(path, partition_cols=["wsi_uuid"]): a new file in the directory
\* of every wsi_uuid of the table; the files that are there stay
WriteToDataset(dataset, rows) ==
    LET slides == DropDuplicates([i \in 1..Len(rows) |-> rows[i].wsi_uuid])
    IN  dataset \o [k \in 1..Len(slides) |->
            LET Same(row) == row.wsi_uuid = slides[k]
            IN  [wsi_uuid |-> slides[k], rows |-> SelectSeq(rows, Same)]]

\* read_parquet('<path>/*/*.parquet'): the rows of all files
ReadDataset(dataset) == Flatten([k \in 1..Len(dataset) |-> dataset[k].rows])

\* the rows of the files of the directory wsi_uuid=s
ReadPartition(dataset, s) ==
    Flatten([k \in 1..Len(dataset) |->
                IF dataset[k].wsi_uuid = s THEN dataset[k].rows ELSE <<>>])

\* --- the inputs of a run ---

Layouts == {"AB", "BA", "mixed"}

RECURSIVE Interleave(_, _)
Interleave(a, b) ==
    IF a = <<>> THEN b
    ELSE IF b = <<>> THEN a
    ELSE <<Head(a), Head(b)>> \o Interleave(Tail(a), Tail(b))

\* the rows of two slides in the order of the stored table
Laid(layout, a, b) ==
    CASE layout = "AB" -> a \o b
      [] layout = "BA" -> b \o a
      [] OTHER -> Interleave(a, b)

\* a slide of n_clusters cells on a line: (1,2,3), (4,5), (7,8,9,10) are chains
\* of neighbours, 6 is alone
BigPositions ==
    <<<<0, 0>>, <<20, 0>>, <<40, 0>>, <<100, 0>>, <<120, 0>>,
      <<200, 0>>, <<300, 0>>, <<320, 0>>, <<340, 0>>, <<360, 0>>>>

BigVariants == {1, 2}

BigMarks(v) ==
    [c \in 1..Len(BigPositions) |-> IF (c + v) % 3 = 0 THEN <<0, 1>> ELSE <<1, 0>>]

SmallPositions == <<<<0, 0>>, <<30, 16>>>>

SmallMarks == <<<<1, 0>>, <<0, 1>>>>

InitRun(pts, mks, meta) ==
    /\ points = pts
    /\ marks = mks
    /\ metadata = meta
    /\ stage = Stages[1]
    /\ pc = "run"
    /\ wsi_uuids = <<>>
    /\ outcome = <<>>
    /\ cell_neighbourhoods = NotWritten
    /\ raised = NoError
    /\ entities = <<>>
    /\ cell_niche_assignment = <<>>
    /\ spot_niche_loading = <<>>
    /\ niche_prototypes = [e \in {Entities[k] : k \in 1..Len(Entities)} |-> NotWritten]
    /\ overlay_read = NotCalled
    /\ NbIdle
    /\ HistIdle
    /\ KmIdle

\* two slides of up to MaxSlideCells cells, one of each entity
InitSmall ==
    \E posA \in SeqsUpTo(RunPositions, MaxSlideCells) :
    \E posB \in SeqsUpTo(RunPositions, MaxSlideCells) :
    \E mvA \in [1..Len(posA) -> RunMarkVectors] :
    \E mvB \in [1..Len(posB) -> RunMarkVectors] :
    \E layout \in Layouts :
        InitRun(Laid(layout, PointTable("A", posA, <<0, "none">>),
                             PointTable("B", posB, <<0, "none">>)),
                MarkTable("A", mvA, <<0, "none">>) \o MarkTable("B", mvB, <<0, "none">>),
                <<MetaRow("A", "LUAD"), MetaRow("B", "LUSC")>>)

\* the metadata rows of the third slide
MetaVariants == {"absent", "none", "LUAD", "LUSC", "OTHER", "LUAD,LUSC", "LUSC,LUAD"}

MetaRowsOf(s, c) ==
    CASE c \in {"absent", "none"} -> <<>>
      [] c = "LUAD,LUSC" -> <<MetaRow(s, "LUAD"), MetaRow(s, "LUSC")>>
      [] c = "LUSC,LUAD" -> <<MetaRow(s, "LUSC"), MetaRow(s, "LUAD")>>
      [] OTHER -> <<MetaRow(s, c)>>

\* two slides of n_clusters cells and a third, small one that is absent, of
\* either entity, of another entity, without a metadata row, or with rows of
\* both entities
InitCohorts ==
    \E vB \in BigVariants :
    \E entB \in {"LUAD", "LUSC"} :
    \E c \in MetaVariants :
        InitRun(PointTable("A", BigPositions, <<0, "none">>)
                    \o PointTable("B", BigPositions, <<0, "none">>)
                    \o (IF c = "absent" THEN <<>>
                        ELSE PointTable("C", SmallPositions, <<0, "none">>)),
                MarkTable("A", BigMarks(1), <<0, "none">>)
                    \o MarkTable("B", BigMarks(vB), <<0, "none">>)
                    \o (IF c = "absent" THEN <<>>
                        ELSE MarkTable("C", SmallMarks, <<0, "none">>)),
                <<MetaRow("A", "LUAD"), MetaRow("B", entB)>> \o MetaRowsOf("C", c))

\* a slide with a cell whose x or y is NaN, beside a slide of one cell
InitNonFinite ==
    \E i \in 1..Len(SmallPositions) :
    \E axis \in 1..2 :
    \E layout \in Layouts :
        InitRun(Laid(layout, PointTable("A", <<<<0, 0>>>>, <<0, "none">>),
                             PointTable("B", [SmallPositions EXCEPT ![i][axis] = NonFinite],
                                        <<0, "none">>)),
                MarkTable("A", <<<<1, 0>>>>, <<0, "none">>)
                    \o MarkTable("B", SmallMarks, <<0, "none">>),
                <<MetaRow("A", "LUAD"), MetaRow("B", "LUSC")>>)

\* the irregular tables of a slide that make its aggregation raise: a cell
\* with two mark rows or two point rows, or a slide without mark rows
RunIrregular(n) == ((1..n) \X {"dupmark", "duppoint"}) \cup {<<0, "nomarks">>}

\* a slide whose tables are irregular, beside a slide of one cell
InitIrregular ==
    \E irr \in RunIrregular(Len(SmallPositions)) :
    \E layout \in Layouts :
        InitRun(Laid(layout, PointTable("A", <<<<0, 0>>>>, <<0, "none">>),
                             PointTable("B", SmallPositions, irr)),
                MarkTable("A", <<<<1, 0>>>>, <<0, "none">>)
                    \o (IF irr[2] = "nomarks" THEN <<>>
                        ELSE MarkTable("B", SmallMarks, irr)),
                <<MetaRow("A", "LUAD"), MetaRow("B", "LUSC")>>)

Init == InitSmall \/ InitCohorts \/ InitNonFinite \/ InitIrregular

\* --- the steps of main.py and of run_clustering ---

\* phenotype_density.run(): writes /data/tier3/densities.parquet, which no
\* later module reads
PhenotypeDensity ==
    /\ stage = "phenotype_density"
    /\ stage' = StageAfter(stage)
    /\ UNCHANGED <<pc, points, marks, wsi_uuids, outcome, cell_neighbourhoods, raised,
                   metadata, entities, storeVars, NotRun>>

\* run_clustering is entered, line 167
StartClustering ==
    /\ stage = "cell_niches"
    /\ pc = "aggregated"
    /\ entities' = Entities
    /\ pc' = "cluster"
    /\ UNCHANGED <<points, marks, wsi_uuids, outcome, cell_neighbourhoods, raised,
                   stage, metadata, storeVars, NotRun>>

\* lines 170-184: the query of the cohort, and cluster is called on it
QueryCohort ==
    /\ pc = "cluster"
    /\ entities # <<>>
    /\ km_df' = Neighbourhoods(cell_neighbourhoods, metadata, Head(entities))
    /\ km_pc' = "start"
    /\ km_step' = 0
    /\ km_out' = NotCalled
    /\ pc' = "fit"
    /\ UNCHANGED <<km_X, km_rng, km_centers, km_counts, km_ewa, km_prev>>
    /\ UNCHANGED <<points, marks, wsi_uuids, outcome, cell_neighbourhoods, raised,
                   stage, metadata, entities, storeVars, nbVars, histVars>>

\* cluster raised: the exception ends the run
ClusterRaised ==
    /\ pc = "fit"
    /\ km_pc = "failed"
    /\ raised' = km_out
    /\ pc' = "failed"
    /\ km_pc' = "idle"
    /\ UNCHANGED <<km_df, km_X, km_rng, km_centers, km_counts, km_step, km_ewa, km_out,
                   km_prev>>
    /\ UNCHANGED <<points, marks, wsi_uuids, outcome, cell_neighbourhoods,
                   stage, metadata, entities, storeVars, nbVars, histVars>>

\* lines 187-208: the three writes of the cohort; after the last entity
\* run_clustering and run return
PersistCohort ==
    /\ pc = "fit"
    /\ km_pc = "done"
    /\ cell_niche_assignment' =
           WriteToDataset(cell_niche_assignment, AssignmentRows(km_out.cluster_ids))
    /\ spot_niche_loading' =
           WriteToDataset(spot_niche_loading, SpotNicheLoading(km_out.cluster_ids))
    /\ niche_prototypes' = [niche_prototypes EXCEPT ![Head(entities)] = km_out.prototypes]
    /\ entities' = Tail(entities)
    /\ pc' = IF Tail(entities) = <<>> THEN "clustered" ELSE "cluster"
    /\ stage' = IF Tail(entities) = <<>> THEN StageAfter(stage) ELSE stage
    /\ km_pc' = "idle"
    /\ UNCHANGED <<km_df, km_X, km_rng, km_centers, km_counts, km_step, km_ewa, km_out,
                   km_prev>>
    /\ UNCHANGED <<points, marks, wsi_uuids, outcome, cell_neighbourhoods, raised,
                   metadata, overlay_read, nbVars, histVars>>

\* niche_spot_overlay.run(): reads the assignments and the points and plots
NicheSpotOverlay ==
    /\ stage = "niche_spot_overlay"
    /\ IF cell_niche_assignment = <<>>
       THEN /\ raised' = [kind |-> "IOException"]
            /\ pc' = "failed"
            /\ UNCHANGED <<overlay_read, stage>>
       ELSE /\ overlay_read' = [kind |-> "read", rows |-> ReadDataset(cell_niche_assignment)]
            /\ stage' = StageAfter(stage)
            /\ UNCHANGED <<raised, pc>>
    /\ UNCHANGED <<points, marks, wsi_uuids, outcome, cell_neighbourhoods,
                   metadata, entities, cell_niche_assignment, spot_niche_loading,
                   niche_prototypes, NotRun>>

\* clustermaps.run(): reads /data/tier3/publication_all_spots_niche_loading_
\* {entity}.parquet, which no module of main.py writes
Clustermaps ==
    /\ stage = "clustermaps"
    /\ stage' = StageAfter(stage)
    /\ UNCHANGED <<pc, points, marks, wsi_uuids, outcome, cell_neighbourhoods, raised,
                   metadata, entities, storeVars, NotRun>>

Next ==
    \/ PhenotypeDensity
    \/ StartAggregation
    \/ AggregateSlide
    \/ PersistNeighbourhoods
    \/ StartClustering
    \/ QueryCohort
    \/ ClusterStart
    \/ MiniBatchStep
    \/ ClusterReturn
    \/ ClusterRaised
    \/ PersistCohort
    \/ NicheSpotOverlay
    \/ Clustermaps

Spec == Init /\ [][Next]_vars

\* --- properties of the outputs of run_clustering ---

\* the rows of the pooled table of slide s
CellsOfSlide(s) ==
    {i \in 1..Len(cell_neighbourhoods.index) : cell_neighbourhoods.index[i][2] = s}

\* the slides that have a file in a dataset
SlidesIn(dataset) == {dataset[k].wsi_uuid : k \in 1..Len(dataset)}

\* C12: every slide of a cohort has one row in the SpotNicheLoading table that
\* run_clustering has written, and the row sums to the number of cells of the
\* slide that were clustered: the cells of the slide in the pooled table,
\* which are the cells that have an assignment row.
C12_LoadingRowSums ==
    /\ SlidesIn(spot_niche_loading) = SlidesIn(cell_niche_assignment)
    /\ \A k \in 1..Len(spot_niche_loading) :
          \A r \in 1..Len(spot_niche_loading[k].rows) :
              LET row == spot_niche_loading[k].rows[r]
              IN  /\ row.wsi_uuid = spot_niche_loading[k].wsi_uuid
                  /\ Len(ReadPartition(spot_niche_loading, row.wsi_uuid)) = 1
                  /\ SumInts(row.values) = Cardinality(CellsOfSlide(row.wsi_uuid))
                  /\ SumInts(row.values) =
                         Len(ReadPartition(cell_niche_assignment, row.wsi_uuid))

\* a cohort of two slides, of ten and of two cells, beside a cohort of one
C12_Witness ==
    /\ pc = "clustered"
    /\ SlidesIn(spot_niche_loading) = {"A", "B", "C"}
    /\ \E k \in 1..Len(spot_niche_loading) :
          /\ spot_niche_loading[k].wsi_uuid = "C"
          /\ SumInts(spot_niche_loading[k].rows[1].values) = 2
          /\ FirstEntity(metadata, "C") = "LUAD"
    /\ \E k \in 1..Len(spot_niche_loading) :
          /\ spot_niche_loading[k].wsi_uuid = "A"
          /\ SumInts(spot_niche_loading[k].rows[1].values) = 10

\* C13 as stated: every row of the SpotNicheLoading table has a count for
\* each of the k niche ids 0..k-1, and every slide of a cohort has one row.
C13_LoadingDense ==
    /\ \A k \in 1..Len(spot_niche_loading) :
          \A r \in 1..Len(spot_niche_loading[k].rows) :
              spot_niche_loading[k].rows[r].columns = [c \in 1..NClusters |-> c - 1]
    /\ \A s \in SlidesIn(cell_niche_assignment) :
          Len(ReadPartition(spot_niche_loading, s)) = 1

\* C14 as stated: when run has returned, every point with a row in the pooled
\* table has exactly one persisted assignment, with a niche id in 0..k-1.
C14_EveryPointAssigned ==
    pc = "clustered" =>
        \A i \in 1..Len(cell_neighbourhoods.index) :
            LET Mine(row) ==
                    /\ row.polygon_uuid = cell_neighbourhoods.index[i][1]
                    /\ row.wsi_uuid = cell_neighbourhoods.index[i][2]
                assigned == SelectSeq(ReadDataset(cell_niche_assignment), Mine)
            IN  /\ Len(assigned) = 1
                /\ assigned[1].niche_id \in 0..(NClusters - 1)

\* --- C15 to C20 ---

HasNonFinite == \E p \in 1..Len(points) : ~IsFinite(points[p].geom)

\* C15 as stated: a run whose point table holds a NaN or infinite coordinate
\* is rejected when the data is loaded: the aggregation loop is never entered,
\* no slide is aggregated, nothing is persisted and nothing is clustered.
C15_RejectedAtLoad ==
    HasNonFinite =>
        /\ pc \in {"run", "failed"}
        /\ wsi_uuids = <<>>
        /\ outcome = <<>>
        /\ cell_neighbourhoods = NotWritten
        /\ km_df = Unused

\* C16 as stated: a call that returns has one row per input point, in the
\* order and with the (slide_id, cell_id) of the point rows, and exactly the
\* MarkVector columns.
C16_OneVectorPerPoint ==
    IsFrame(nbOut) =>
        /\ Len(nbOut.index) = Len(nbPoints)
        /\ \A i \in 1..Len(nbOut.index) :
              i <= Len(nbPoints) =>
                  nbOut.index[i] = <<nbPoints[i].polygon_uuid, nbPoints[i].wsi_uuid>>
        /\ nbOut.columns = MarkColumns
        /\ \A i \in 1..Len(nbOut.values) : Len(nbOut.values[i]) = Len(MarkColumns)

\* C17 as stated: the fit ends by the early-stopping rule, when
\* max_no_improvement consecutive batches brought no improvement, and not
\* after a fixed number of steps.
C17_StopsByEarlyStopping ==
    km_pc = "done" => km_ewa.no_improvement >= MaxNoImprovement

\* the stored tables as sets of rows: what is left of them when the order of
\* the rows and of the slides is forgotten
PointSet == {points[p] : p \in 1..Len(points)}

MarkSet == {marks[m] : m \in 1..Len(marks)}

RECURSIVE SumMarks(_)
SumMarks(M) ==
    IF M = {} THEN ZeroVec(NumCols)
    ELSE LET m == CHOOSE x \in M : TRUE
         IN  VecAdd(m.vals, SumMarks(M \ {m}))

\* the pooled table by its definition, from the sets of rows alone
PooledOf(P, M) ==
    {<<<<p.polygon_uuid, p.wsi_uuid>>,
       SumMarks({m \in M :
                    /\ m.wsi_uuid = p.wsi_uuid
                    /\ \E q \in P : /\ Key(q) = Key(m)
                                    /\ Dist2(q.geom, p.geom) <= Radius * Radius})>> :
        p \in P}

\* C18: the pooled table, as a set of rows keyed by (slide_id, cell_id), is a
\* function of the sets of point and mark rows: it is the same in whatever
\* order the slides and their rows are stored and so aggregated, it has one
\* row per key, and each slide's frame holds the rows of that slide only.
C18_PooledOrderFree ==
    /\ \A k \in 1..Len(outcome) :
          /\ \A i, j \in 1..Len(outcome[k].index) :
                outcome[k].index[i][2] = outcome[k].index[j][2]
          /\ Keyed(outcome[k]) \subseteq PooledOf(PointSet, MarkSet)
          /\ \A l \in 1..Len(outcome) :
                l # k => outcome[l].index[1][2] # outcome[k].index[1][2]
    /\ IsFrame(cell_neighbourhoods) =>
          /\ \A i, j \in 1..Len(cell_neighbourhoods.index) :
                cell_neighbourhoods.index[i] = cell_neighbourhoods.index[j] => i = j
          /\ Keyed(cell_neighbourhoods) = PooledOf(PointSet, MarkSet)

\* the rows of two slides of two cells stored alternately: the pooled table
\* has slide A's rows, then slide B's
C18_Witness ==
    /\ IsFrame(cell_neighbourhoods)
    /\ Len(points) = 4
    /\ points[1].wsi_uuid = "A" /\ points[2].wsi_uuid = "B"
    /\ points[3].wsi_uuid = "A" /\ points[4].wsi_uuid = "B"
    /\ cell_neighbourhoods.index = <<<<1, "A">>, <<2, "A">>, <<1, "B">>, <<2, "B">>>>
    /\ cell_neighbourhoods.values[1] # cell_neighbourhoods.values[3]

\* C19: a cohort is only ever queried from the pooled table that the finished
\* aggregation of all slides has persisted; the overlay and the clustermaps
\* run only after run_clustering has written every cohort; and what the
\* overlay read is the complete assignment table.
C19_StageOrder ==
    /\ km_df # Unused =>
          /\ pc \notin {"run", "aggregate"}
          /\ wsi_uuids = <<>>
          /\ IsFrame(cell_neighbourhoods)
          /\ cell_neighbourhoods = Concat(outcome)
          /\ \E k \in 1..Len(Entities) :
                km_df = Neighbourhoods(cell_neighbourhoods, metadata, Entities[k])
    /\ stage \in {"niche_spot_overlay", "clustermaps", "exit"} =>
          /\ pc = "clustered"
          /\ entities = <<>>
          /\ km_pc = "idle"
          /\ \A k \in 1..Len(Entities) : IsFrame(niche_prototypes[Entities[k]])
    /\ overlay_read # NotCalled =>
          /\ pc = "clustered"
          /\ overlay_read.rows = ReadDataset(cell_niche_assignment)

\* main.py has run to its end; the overlay read the 22 assignments of three
\* slides in two cohorts
C19_Witness ==
    /\ stage = "exit"
    /\ pc = "clustered"
    /\ overlay_read # NotCalled
    /\ Len(overlay_read.rows) = 22
    /\ SlidesIn(cell_niche_assignment) = {"A", "B", "C"}

\* C20: no step changes what is stored for a slide that has assignment or
\* loading files, nor a prototype table that is written: the writes of a
\* later cohort go to the same paths and leave the earlier cohort's rows.
C20_EarlierCohortKept ==
    [][/\ \A s \in SlidesIn(cell_niche_assignment) :
             ReadPartition(cell_niche_assignment', s) = ReadPartition(cell_niche_assignment, s)
       /\ \A s \in SlidesIn(spot_niche_loading) :
             ReadPartition(spot_niche_loading', s) = ReadPartition(spot_niche_loading, s)
       /\ \A e \in DOMAIN niche_prototypes :
             IsFrame(niche_prototypes[e]) => niche_prototypes'[e] = niche_prototypes[e]]_vars

\* LUSC was processed after LUAD: both cohorts' files and prototypes are there
C20_Witness ==
    /\ pc = "clustered"
    /\ FirstEntity(metadata, "A") = "LUAD"
    /\ FirstEntity(metadata, "B") = "LUSC"
    /\ Len(ReadPartition(cell_niche_assignment, "A")) = 10
    /\ Len(ReadPartition(cell_niche_assignment, "B")) = 10
    /\ Len(ReadPartition(spot_niche_loading, "A")) = 1
    /\ Len(ReadPartition(spot_niche_loading, "B")) = 1
    /\ IsFrame(niche_prototypes["LUAD"])
    /\ IsFrame(niche_prototypes["LUSC"])
    /\ cell_niche_assignment[1].wsi_uuid = "A"

\* --- C21 to C23 ---

\* the aggregation of a slide raised: the run has ended inside the loop
AggregationRaised == pc = "failed" /\ wsi_uuids # <<>>

NothingClustered ==
    /\ km_df = Unused
    /\ entities = <<>>
    /\ cell_niche_assignment = <<>>
    /\ spot_niche_loading = <<>>
    /\ \A e \in DOMAIN niche_prototypes : niche_prototypes[e] = NotWritten
    /\ overlay_read = NotCalled

\* C21: the pooled table is persisted only when every slide of the point
\* table has been aggregated into a frame; when the aggregation of a slide
\* raised, nothing is persisted for any slide, and while nothing is persisted
\* no cohort is queried, fitted or written.
C21_PersistedAfterAll ==
    /\ IsFrame(cell_neighbourhoods) =>
          /\ wsi_uuids = <<>>
          /\ {outcome[k].index[1][2] : k \in 1..Len(outcome)}
                 = {points[p].wsi_uuid : p \in 1..Len(points)}
          /\ cell_neighbourhoods = Concat(outcome)
    /\ AggregationRaised => cell_neighbourhoods = NotWritten
    /\ cell_neighbourhoods = NotWritten =>
          /\ pc \in {"run", "aggregate", "failed"}
          /\ NothingClustered

\* slide A was aggregated, then the aggregation of slide B raised on a cell
\* with two rows: the frame of A is dropped with the run
C21_Witness ==
    /\ AggregationRaised
    /\ raised = MergeError
    /\ Len(outcome) = 1
    /\ outcome[1].index[1][2] = "A"
    /\ Head(wsi_uuids) = "B"
    /\ cell_neighbourhoods = NotWritten


\* the (polygon_uuid, wsi_uuid) of the assignment rows that are stored
AssignedKeys ==
    LET rows == ReadDataset(cell_niche_assignment)
    IN  [i \in 1..Len(rows) |-> <<rows[i].polygon_uuid, rows[i].wsi_uuid>>]

\* C22: a slide is in the cohort of the first ENTITY of its metadata rows
\* only: the table a fit is given holds slides of its entity only and no cell
\* that an earlier fit has assigned, no cell has two stored assignments, and
\* no slide has two loading rows.
C22_CohortsDisjoint ==
    /\ (pc = "fit" /\ IsFrame(km_df)) =>
          \A i \in 1..Len(km_df.index) :
              /\ FirstEntity(metadata, km_df.index[i][2]) = Head(entities)
              /\ \A j \in 1..Len(AssignedKeys) : AssignedKeys[j] # km_df.index[i]
    /\ \A i, j \in 1..Len(AssignedKeys) : AssignedKeys[i] = AssignedKeys[j] => i = j
    /\ \A s \in SlidesIn(spot_niche_loading) :
          Len(ReadPartition(spot_niche_loading, s)) = 1

\* slide C has a LUSC row and then a LUAD row; both cohorts are written and
\* C is with B in the LUSC cohort, written after A
C22_Witness ==
    /\ pc = "clustered"
    /\ \E k \in 1..Len(metadata) : metadata[k] = MetaRow("C", "LUAD")
    /\ FirstEntity(metadata, "C") = "LUSC"
    /\ FirstEntity(metadata, "B") = "LUSC"
    /\ Len(AssignedKeys) = 22
    /\ AssignedKeys[1][2] = "A"
    /\ Len(ReadPartition(cell_niche_assignment, "C")) = 2


\* the MarkVector of output row j of the call
MarkOfRow(j) == nbMarks[CHOOSE m \in MarksOfKey(OutKey(nbOut, j)) : TRUE].vals

\* the rows whose neighbour set holds row j
CountedIn(j) == {i \in 1..Len(nbNeighbours) : j \in nbNeighbours[i]}

\* C23: in a call that returns, row j is a neighbour of row i exactly when
\* row i is a neighbour of row j; so the MarkVector of a row is summed into as
\* many NeighbourhoodVectors as the row has neighbours, itself included, and
\* the NeighbourhoodVectors add up to the MarkVectors weighted by the sizes
\* of their rows' neighbour sets.
C23_NeighboursSymmetric ==
    IsFrame(nbOut) =>
        /\ Len(nbNeighbours) = Len(nbOut.index)
        /\ \A i, j \in 1..Len(nbNeighbours) :
              j \in nbNeighbours[i] <=> i \in nbNeighbours[j]
        /\ \A j \in 1..Len(nbNeighbours) :
              Cardinality(CountedIn(j)) = Cardinality(nbNeighbours[j])
        /\ SumOver(nbOut.values, 1..Len(nbOut.values), ZeroVec(NumCols))
               = SumOver([j \in 1..Len(nbOut.index) |->
                             [c \in 1..NumCols |->
                                 Cardinality(nbNeighbours[j]) * MarkOfRow(j)[c]]],
                         1..Len(nbOut.index), ZeroVec(NumCols))

\* three points at (0,0), (30,16), (35,0) and radius 34: the second is a
\* neighbour of both others, which are not neighbours of each other
C23_Witness ==
    /\ IsFrame(nbOut)
    /\ nbRadius = Radius
    /\ Len(nbPoints) = 3
    /\ nbNeighbours = <<{1, 2}, {1, 2, 3}, {2, 3}>>
    /\ nbMarks[2].vals = <<0, 1>>
    /\ nbOut.values[1][2] = 1 /\ nbOut.values[3][2] = 1

====
